---- MODULE Spec2Model ----
(***************************************************************************)
(* arxiv2poster: the batch driver (cli.py main), the paper download        *)
(* (arxiv_downloader.py), the metadata extractor (pdf_processor.py) and    *)
(* the generation orchestrator (poster_generator.py generate_poster) as    *)
(* one state machine.  Python's None is the string "None"; a Python string *)
(* that the code only tests for truthiness or equality is a TLA+ string;   *)
(* a string the code transforms (language, error message) is a sequence of *)
(* one-character strings.                                                  *)
(***************************************************************************)
EXTENDS Integers, Sequences, FiniteSets, TLC

\* ------------------------------------------------------------------ bounds
\* longest identifier list given on the command line
MaxIds == 3
\* highest variant number present in the output directory at start
MaxInitVariant == 2
\* longest list of parts in a generation response
MaxParts == 2
\* most words of an abstract handed to extract_key_concepts (SpecExtract)
MaxWords == 3
\* number of consecutive runs of main over one output directory (SpecRuns)
MaxRuns == 3

\* ------------------------------------------------------------ small helpers
None == "None"

\* Python truthiness of an Optional[str]
Truthy(s) == s # None /\ s # ""

\* a path is a tuple of name parts; None and '' as paths
PathNone == <<"None">>
PathEmpty == <<"">>
PathTruthy(p) == p # PathNone /\ p # PathEmpty

RECURSIVE IsPrefixAt(_, _, _)
\* needle occurs in hay starting at position i
IsPrefixAt(needle, hay, i) ==
    IF needle = <<>> THEN TRUE
    ELSE /\ i <= Len(hay)
         /\ hay[i] = Head(needle)
         /\ IsPrefixAt(Tail(needle), hay, i + 1)

\* Python's `needle in hay` on strings
Contains(hay, needle) ==
    \E i \in 1..(Len(hay) + 1) : IsPrefixAt(needle, hay, i)

Upper == <<"A","B","C","D","E","F","G","H","I","J","K","L","M",
           "N","O","P","Q","R","S","T","U","V","W","X","Y","Z">>
Lower == <<"a","b","c","d","e","f","g","h","i","j","k","l","m",
           "n","o","p","q","r","s","t","u","v","w","x","y","z">>

\* str.lower() on one character
LowerChar(c) ==
    IF \E i \in 1..Len(Upper) : Upper[i] = c
    THEN Lower[CHOOSE i \in 1..Len(Upper) : Upper[i] = c]
    ELSE c

\* str.lower()
StrLower(s) == [i \in 1..Len(s) |-> LowerChar(s[i])]

\* str.replace(' ', '_')
ReplaceSpaces(s) == [i \in 1..Len(s) |-> IF s[i] = " " THEN "_" ELSE s[i]]

\* ------------------------------------------------------- cli.py: file names
\* an identifier is the sequence of its '/'-separated segments
CleanId(arxiv_id) == arxiv_id[Len(arxiv_id)]

\* mutant: the spaces of the language are kept
LangNormalizedLowerOnly(language) == StrLower(language)

LangNormalized(language) == ReplaceSpaces(StrLower(language))

SidePanelSuffix(side_panel) == IF Truthy(side_panel) THEN side_panel ELSE "nopanel"

\* poster_<clean_id>_<orientation>_<lang_normalized>_<side_panel_suffix>.png
BaseFilename(arxiv_id, a) ==
    <<"poster", CleanId(arxiv_id), a.orientation,
      LangNormalized(a.language), SidePanelSuffix(a.side_panel)>>

\* ..._<side_panel_suffix>_var_<variant_num>.png
VariantFilename(arxiv_id, a, variant_num) ==
    BaseFilename(arxiv_id, a) \o <<"var", variant_num>>

\* ------------------------------------------ pdf_processor.py: key concepts
Digits == <<"0","1","2","3","4","5","6","7","8","9">>

IsUpperChar(c) == \E i \in 1..Len(Upper) : Upper[i] = c

IsLowerChar(c) == \E i \in 1..Len(Lower) : Lower[i] = c

\* \w
IsWordChar(c) ==
    IsUpperChar(c) \/ IsLowerChar(c) \/ (\E i \in 1..Len(Digits) : Digits[i] = c) \/ c = "_"

\* \s
IsSpaceChar(c) == c \in {" ", "\t", "\n"}

WordAt(text, i) == i \in 1..Len(text) /\ IsWordChar(text[i])

\* \b between the characters i - 1 and i
Boundary(text, i) == WordAt(text, i - 1) # WordAt(text, i)

\* [A-Z][a-z] can start at i
CapWordStart(text, i) ==
    i + 1 <= Len(text) /\ IsUpperChar(text[i]) /\ IsLowerChar(text[i + 1])

RECURSIVE LowerRunEnd(_, _)
\* [a-z]+ taken greedily: the last lower-case letter of the run through j
LowerRunEnd(text, j) ==
    IF j + 1 <= Len(text) /\ IsLowerChar(text[j + 1]) THEN LowerRunEnd(text, j + 1)
    ELSE j

RECURSIVE SkipSpaces(_, _)
\* \s+ taken greedily: the first index from j on that is no white space
SkipSpaces(text, j) ==
    IF j <= Len(text) /\ IsSpaceChar(text[j]) THEN SkipSpaces(text, j + 1) ELSE j

RECURSIVE PhraseEnd(_, _)
\* (?:\s+[A-Z][a-z]+)*\b after a capitalized word that ends at e: the longest
\* continuation that ends at a word boundary, 0 when there is none
PhraseEnd(text, e) ==
    LET s == SkipSpaces(text, e + 1)
        longer == IF s > e + 1 /\ CapWordStart(text, s)
                  THEN PhraseEnd(text, LowerRunEnd(text, s + 1))
                  ELSE 0
    IN  IF longer > 0 THEN longer
        ELSE IF Boundary(text, e + 1) THEN e
        ELSE 0

\* the end of the match of \b[A-Z][a-z]+(?:\s+[A-Z][a-z]+)*\b at i, 0 for none
MatchEnd(text, i) ==
    IF Boundary(text, i) /\ CapWordStart(text, i)
    THEN PhraseEnd(text, LowerRunEnd(text, i + 1))
    ELSE 0

RECURSIVE FindAll(_, _)
\* re.findall from position i: the matches left to right, not overlapping
FindAll(text, i) ==
    IF i > Len(text) THEN <<>>
    ELSE LET e == MatchEnd(text, i)
         IN  IF e > 0 THEN <<SubSeq(text, i, e)>> \o FindAll(text, e + 1)
             ELSE FindAll(text, i + 1)

common_words ==
    { <<"T","h","e">>, <<"T","h","i","s">>, <<"W","e">>, <<"O","u","r">>,
      <<"T","h","e","s","e">>, <<"T","h","a","t">>, <<"I","n">>, <<"O","n">>,
      <<"A","t">>, <<"F","o","r">>, <<"W","i","t","h">> }

max_concepts == 5

\* [w for w in words if w not in common_words and len(w) > 3]
Concepts(words) == SelectSeq(words, LAMBDA w : w \notin common_words /\ Len(w) > 3)

RECURSIVE Dedupe(_)
\* list(dict.fromkeys(...)): the first occurrence of each element, in order
Dedupe(s) ==
    IF s = <<>> THEN <<>>
    ELSE <<Head(s)>> \o Dedupe(SelectSeq(Tail(s), LAMBDA w : w # Head(s)))

\* s[:n]
Take(s, n) == SubSeq(s, 1, IF n < Len(s) THEN n ELSE Len(s))

RECURSIVE Join(_, _)
\* sep.join(list)
Join(list, sep) ==
    IF list = <<>> THEN <<>>
    ELSE IF Len(list) = 1 THEN list[1]
    ELSE list[1] \o sep \o Join(Tail(list), sep)

\* "Research, Machine Learning, Deep Learning"
FallbackConcepts ==
    <<"R","e","s","e","a","r","c","h",","," ",
      "M","a","c","h","i","n","e"," ","L","e","a","r","n","i","n","g",","," ",
      "D","e","e","p"," ","L","e","a","r","n","i","n","g">>

unique_concepts(text) == Take(Dedupe(Concepts(FindAll(text, 1))), max_concepts)

extract_key_concepts(text) ==
    IF unique_concepts(text) # <<>> THEN Join(unique_concepts(text), <<",", " ">>)
    ELSE FallbackConcepts

\* ------------------------------------------ poster_generator.py: derivations
\* api_key argument, then GEMINI_API_KEY or GOOGLE_API_KEY
ResolveApiKey(api_key, e) ==
    IF api_key = None
    THEN IF Truthy(e.GEMINI_API_KEY) THEN e.GEMINI_API_KEY ELSE e.GOOGLE_API_KEY
    ELSE api_key

ModelMap == [pro |-> "gemini-3-pro-image-preview", flash |-> "gemini-2.5-flash-image"]

\* mutant: the ratios of the two layouts exchanged
AspectRatioSwapped(side_panel, orientation) ==
    IF Truthy(side_panel)
    THEN (IF orientation = "landscape" THEN "3:2" ELSE "3:4")
    ELSE (IF orientation = "landscape" THEN "21:9" ELSE "4:3")

AspectRatio(side_panel, orientation) ==
    IF Truthy(side_panel)
    THEN (IF orientation = "landscape" THEN "21:9" ELSE "4:3")
    ELSE (IF orientation = "landscape" THEN "3:2" ELSE "3:4")

OrderingPrinciple(orientation) ==
    IF orientation = "landscape" THEN "column-first" ELSE "row-first"

ResolutionText(model, resolution) == IF model = "pro" THEN resolution ELSE ""

WhatifSection(whatif_text) == IF Truthy(whatif_text) THEN whatif_text ELSE ""

\* layout_structure, side_panel_section, layout_note, side_panel_description
SidePanelLayout(side_panel) ==
    IF side_panel = "qa"
    THEN [layout_structure |-> "two sections side by side",
          side_panel_section |-> "Q&A CHAT INTERFACE",
          layout_note |-> "Side-by-side design with Q&A chat interface",
          side_panel_description |-> "Q&A chat interface"]
    ELSE [layout_structure |-> "single full-width poster",
          side_panel_section |-> "",
          layout_note |-> "Full-width poster layout",
          side_panel_description |-> ""]

\* the f-string poster_prompt, as the record of its interpolated parts
PosterPrompt(g) ==
    LET lay == SidePanelLayout(g.side_panel)
        is_whatif == g.whatif_text # None /\ g.existing_poster_path # PathNone
    IN [side_panel_note |-> lay.side_panel_description,
        variation_note |-> is_whatif,
        whatif_section |-> WhatifSection(g.whatif_text),
        layout_structure |-> lay.layout_structure,
        ordering_principle |-> OrderingPrinciple(g.orientation),
        side_panel_section |-> lay.side_panel_section,
        orientation |-> g.orientation,
        aspect_ratio |-> AspectRatio(g.side_panel, g.orientation),
        resolution_text |-> ResolutionText(g.model, g.resolution),
        side_panel_content |-> Truthy(g.side_panel),
        language |-> g.language,
        layout_note |-> lay.layout_note,
        qa_requirements |-> (g.side_panel = "qa"),
        qa_chat_styling |-> (g.side_panel = "qa"),
        closing |-> IF g.side_panel = "qa" THEN "both sides cohesive"
                    ELSE "convey the essence"]

\* mutant: the poster part and its REFERENCE text come after the prompt
ContentsPosterLast(g, poster_uri) ==
    <<[kind |-> "file", mime |-> "application/pdf"],
      [kind |-> "prompt", text |-> PosterPrompt(g)]>>
    \o (IF Truthy(poster_uri)
        THEN <<[kind |-> "file", mime |-> "image/png"],
               [kind |-> "text", text |-> "REFERENCE"]>>
        ELSE <<>>)

\* contents: the PDF part, the poster part and its REFERENCE text, the prompt
Contents(g, poster_uri) ==
    <<[kind |-> "file", mime |-> "application/pdf"]>>
    \o (IF Truthy(poster_uri)
        THEN <<[kind |-> "file", mime |-> "image/png"],
               [kind |-> "text", text |-> "REFERENCE"]>>
        ELSE <<>>)
    \o <<[kind |-> "prompt", text |-> PosterPrompt(g)]>>

\* mutant: imageSize sent for every model
ImageConfigParamsAlwaysSize(g) ==
    [aspectRatio |-> AspectRatio(g.side_panel, g.orientation),
     imageSize |-> g.resolution]

\* image_config_params
ImageConfigParams(g) ==
    IF g.model = "pro"
    THEN [aspectRatio |-> AspectRatio(g.side_panel, g.orientation),
          imageSize |-> g.resolution]
    ELSE [aspectRatio |-> AspectRatio(g.side_panel, g.orientation)]

\* mutant: "expired" is looked for in the message as it is
IsApiKeyErrorCaseSensitive(error_msg) ==
    \/ Contains(error_msg, <<"A","P","I"," ","k","e","y">>)
    \/ Contains(error_msg, <<"A","P","I","_","K","E","Y">>)
    \/ Contains(error_msg, <<"e","x","p","i","r","e","d">>)

\* "API key" in msg or "API_KEY" in msg or "expired" in msg.lower()
IsApiKeyError(error_msg) ==
    \/ Contains(error_msg, <<"A","P","I"," ","k","e","y">>)
    \/ Contains(error_msg, <<"A","P","I","_","K","E","Y">>)
    \/ Contains(StrLower(error_msg), <<"e","x","p","i","r","e","d">>)

\* mutant: the loop does not break at the first image
FirstImageLast(parts) ==
    IF \E i \in 1..Len(parts) : parts[i] = "image"
    THEN CHOOSE i \in 1..Len(parts) :
            /\ parts[i] = "image"
            /\ \A j \in (i + 1)..Len(parts) : parts[j] # "image"
    ELSE 0

\* index of the first part for which as_image() is not None, 0 when none
FirstImage(parts) ==
    IF \E i \in 1..Len(parts) : parts[i] = "image"
    THEN CHOOSE i \in 1..Len(parts) :
            /\ parts[i] = "image"
            /\ \A j \in 1..(i - 1) : parts[j] # "image"
    ELSE 0

\* ------------------------------------------------------------------ inputs
English == <<"E","n","g","l","i","s","h">>
OldEnglish == <<"O","l","d"," ","E","n","g","l","i","s","h">>

\* identifiers as given on the command line, already normalized
AllIds == << <<"1706.03762">>, <<"cs.CV", "2301.12345">>, <<"cs.LG", "1706.03762">>,
             <<"2401.00001">>, <<"math", "2301.12345">> >>

IdLists == {SubSeq(AllIds, a, b) : a \in 1..MaxIds, b \in 1..MaxIds} \ {<<>>}

CustomOutput == <<"my_poster.png">>

Unset == [GEMINI_API_KEY |-> None, GOOGLE_API_KEY |-> None]
Envs == [GEMINI_API_KEY : {None, "", "gemini-key"},
         GOOGLE_API_KEY : {None, "", "google-key"}]

\* argparse defaults of the presentation options
DefaultOptions == [orientation |-> "landscape", model |-> "pro", resolution |-> "2K",
                   language |-> English, side_panel |-> None]

\* the options argparse accepts (choices=...)
CliOptions == [orientation : {"landscape", "portrait"}, model : {"pro", "flash"},
               resolution : {"1K", "2K", "4K"}, language : {English, OldEnglish},
               side_panel : {None, "qa"}]

WithOptions(o, ids, output, whatif, api_key) ==
    [arxiv_ids |-> ids, output |-> output, whatif |-> whatif, api_key |-> api_key,
     orientation |-> o.orientation, model |-> o.model, resolution |-> o.resolution,
     language |-> o.language, side_panel |-> o.side_panel]

\* command lines: every list, output and what-if with the default options,
\* and every option combination with one identifier
CliArgs ==
    {WithOptions(DefaultOptions, ids, out, w, k) :
        ids \in IdLists, out \in {PathNone, CustomOutput},
        w \in {None, "", "idea"}, k \in {None, "key"}}
    \cup {WithOptions(o, <<AllIds[1]>>, PathNone, w, "key") :
        o \in CliOptions, w \in {None, "idea"}}

\* what-if command lines with the derived output path
WhatifArgs ==
    {WithOptions(DefaultOptions, <<AllIds[1]>>, PathNone, "idea", "key")}

\* error messages the generation call can raise
ErrorMessages == { <<"A","P","I"," ","k","e","y"," ","b","a","d">>,
                   <<"A","P","I","_","K","E","Y">>,
                   <<"E","X","P","I","R","E","D">>,
                   <<"a","p","i"," ","k","e","y">>,
                   <<"q","u","o","t","a">> }

\* the words abstracts are made of: stoplist words, capitalized terms, a
\* lower-case word and a full stop
Vocabulary ==
    { <<"T","h","e">>, <<"T","h","i","s">>, <<"A","t","t","e","n","t","i","o","n">>,
      <<"M","o","d","e","l">>, <<"i","s">>, <<".">> }

RECURSIVE SeqsUpTo(_, _)
SeqsUpTo(S, n) ==
    IF n = 0 THEN {<<>>}
    ELSE LET shorter == SeqsUpTo(S, n - 1)
         IN shorter \cup {Append(q, x) : q \in shorter, x \in S}

\* response.parts: each part is text or decodes as an image
PartLists == SeqsUpTo({"text", "image"}, MaxParts)

\* abstracts: up to MaxWords words separated by one space
Abstracts == {Join(ws, <<" ">>) : ws \in SeqsUpTo(Vocabulary, MaxWords)}

\* the output directory: for every derived base name, whether the base poster
\* exists and which variants exist
VariantSets == {1..k : k \in 0..MaxInitVariant} \cup {{MaxInitVariant}}

Old == [run |-> 0, idx |-> 0]

\* ------------------------------------------------------------------- state
VARIABLES
    args,           \* argparse namespace of the current run of main ("None" outside)
    env,            \* os.environ: GEMINI_API_KEY, GOOGLE_API_KEY
    dir,            \* output directory at start: [base: BOOLEAN, variants: SUBSET Nat]
    written,        \* files saved since start: file name -> stamp of the write
    pc,             \* position in main / generate_poster
    idx,            \* enumerate index of the identifier being processed
    success_count,
    failed_ids,
    output_path,    \* main's output_path for the current identifier
    tmp_pdfs,       \* indices whose downloaded temporary PDF is still on disk
    gen,            \* frame of generate_poster: arguments and locals
    calls,          \* external calls issued for the current identifier, in order
    history,        \* outcome per processed identifier of the current run
    last,           \* what was reported for the identifier processed last
    exit_code,
    runs,           \* runs of main started so far
    paper           \* the abstract handed to extract_key_concepts and its result

vars == <<args, env, dir, written, pc, idx, success_count, failed_ids, output_path,
          tmp_pdfs, gen, calls, history, last, exit_code, runs, paper>>

\* a derived name of the start directory: exists per the directory pattern
InitiallyExists(f) ==
    /\ Len(f) >= 5
    /\ f[1] = "poster"
    /\ IF Len(f) = 5 THEN dir.base ELSE f[7] \in dir.variants

\* Path.exists()
Exists(f) == f \in DOMAIN written \/ InitiallyExists(f)

\* stamp of the content of an existing file
Content(f) == IF f \in DOMAIN written THEN written[f] ELSE Old


RECURSIVE ScanVariant(_, _, _)
\* the while-loop: the first variant_num, counting from n, whose file is absent
ScanVariant(arxiv_id, a, n) ==
    IF ~Exists(VariantFilename(arxiv_id, a, n)) THEN n
    ELSE ScanVariant(arxiv_id, a, n + 1)

\* mutant: the number of existing variants plus one, without the scan
NextVariantNumCounted(arxiv_id, a) ==
    Cardinality({n \in 1..(MaxInitVariant + MaxRuns) :
                    Exists(VariantFilename(arxiv_id, a, n))}) + 1

\* mutant: the scan never advances
NextVariantNumFirst(arxiv_id, a) == 1

\* variant_num after the loop
NextVariantNum(arxiv_id, a) == ScanVariant(arxiv_id, a, 1)

NoError == [type |-> None, msg |-> "", detail |-> <<>>]

NoArgs == [arxiv_ids |-> <<>>, output |-> PathNone, whatif |-> None, api_key |-> None,
           orientation |-> "", model |-> "", resolution |-> "", language |-> <<>>,
           side_panel |-> None]

\* no call of generate_poster in progress
NoCall == [caller |-> None, orientation |-> "", resolution |-> "", model |-> "",
           language |-> <<>>, side_panel |-> None, whatif_text |-> None,
           existing_poster_path |-> PathNone, api_key |-> None,
           output_path |-> PathNone, uploaded_pdf |-> FALSE, uploaded_poster |-> FALSE,
           poster_uri |-> None, request |-> <<>>, response |-> <<>>,
           error |-> NoError, saved_part |-> 0, client_key |-> None]

\* no abstract handed over
NoPaper == [abstract |-> <<>>, key_concepts |-> <<>>, extracted |-> FALSE]

NoLast == [id |-> <<>>, result |-> None, reason |-> ""]

\* ------------------------------------------------------------- cli.py main
Ids == args.arxiv_ids
arxiv_id == Ids[idx]

\* the loop moves to the next identifier, or to the summary after the last
Advance ==
    /\ idx' = idx + 1
    /\ pc' = IF idx < Len(Ids) THEN "iter" ELSE "summary"

\* mutant: a failure leaves the loop
RecordFailureAbort(reason) ==
    /\ failed_ids' = Append(failed_ids, arxiv_id)
    /\ history' = Append(history, "failed")
    /\ last' = [id |-> arxiv_id, result |-> "failed", reason |-> reason]
    /\ UNCHANGED success_count
    /\ idx' = idx + 1
    /\ pc' = "summary"

\* failed_ids.append(arxiv_id) of the `continue` and of both except clauses
RecordFailure(reason) ==
    /\ failed_ids' = Append(failed_ids, arxiv_id)
    /\ history' = Append(history, "failed")
    /\ last' = [id |-> arxiv_id, result |-> "failed", reason |-> reason]
    /\ UNCHANGED success_count
    /\ Advance

\* mutant: the what-if validation is missing
StartRunNoWhatifCheck(a, e) ==
    /\ pc = "idle"
    /\ args' = a
    /\ env' = e
    /\ runs' = runs + 1
    /\ idx' = 1
    /\ success_count' = 0
    /\ failed_ids' = <<>>
    /\ history' = <<>>
    /\ last' = NoLast
    /\ calls' = <<>>
    /\ tmp_pdfs' = {}
    /\ output_path' = PathNone
    /\ IF Len(a.arxiv_ids) > 1 /\ a.output # PathNone
       THEN pc' = "exit" /\ exit_code' = 1
       ELSE pc' = "iter" /\ exit_code' = -1
    /\ UNCHANGED <<dir, written, gen>>
    /\ UNCHANGED paper

\* parse_args and the validations before the loop
StartRun(a, e) ==
    /\ pc = "idle"
    /\ args' = a
    /\ env' = e
    /\ runs' = runs + 1
    /\ idx' = 1
    /\ success_count' = 0
    /\ failed_ids' = <<>>
    /\ history' = <<>>
    /\ last' = NoLast
    /\ calls' = <<>>
    /\ tmp_pdfs' = {}
    /\ output_path' = PathNone
    /\ IF Len(a.arxiv_ids) > 1 /\ a.output # PathNone
       THEN pc' = "exit" /\ exit_code' = 1
       ELSE IF Truthy(a.whatif) /\ Len(a.arxiv_ids) > 1
       THEN pc' = "exit" /\ exit_code' = 1
       ELSE pc' = "iter" /\ exit_code' = -1
    /\ UNCHANGED <<dir, written, gen>>
    /\ UNCHANGED paper

\* output path of this identifier; mkdir_ok: the parent of a custom output
\* can be created
DerivePath(mkdir_ok) ==
    /\ pc = "iter"
    /\ calls' = <<>>
    /\ UNCHANGED <<args, env, dir, written, tmp_pdfs, gen, exit_code, runs>>
    /\ IF args.output = PathNone
       THEN IF Truthy(args.whatif)
            THEN IF ~Exists(BaseFilename(arxiv_id, args))
                 THEN /\ RecordFailure("Existing poster file not found")
                      /\ UNCHANGED output_path
                 ELSE /\ output_path' =
                            VariantFilename(arxiv_id, args, NextVariantNum(arxiv_id, args))
                      /\ pc' = "download"
                      /\ last' = NoLast
                      /\ UNCHANGED <<idx, success_count, failed_ids, history>>
            ELSE /\ output_path' = BaseFilename(arxiv_id, args)
                 /\ pc' = "download"
                 /\ last' = NoLast
                 /\ UNCHANGED <<idx, success_count, failed_ids, history>>
       ELSE IF mkdir_ok
            THEN /\ output_path' = args.output
                 /\ pc' = "download"
                 /\ last' = NoLast
                 /\ UNCHANGED <<idx, success_count, failed_ids, history>>
            ELSE /\ RecordFailure("mkdir failed")
                 /\ UNCHANGED output_path
    /\ UNCHANGED paper

\* download_arxiv_pdf: the search, then the PDF download
Download(outcome) ==
    /\ pc = "download"
    /\ calls' = Append(calls, [svc |-> "arxiv", op |-> "download", ok |-> outcome = "ok"])
    /\ UNCHANGED <<args, env, dir, written, output_path, gen, exit_code, runs>>
    /\ IF outcome = "ok"
       THEN /\ tmp_pdfs' = tmp_pdfs \cup {idx}
            /\ pc' = "extract"
            /\ UNCHANGED <<idx, success_count, failed_ids, history, last>>
       ELSE /\ RecordFailure(IF outcome = "not_found" THEN "not found on arXiv"
                                                      ELSE "download failed")
            /\ UNCHANGED tmp_pdfs
    /\ UNCHANGED paper

\* extract_paper_info; summary_ok: the metadata's summary is a string.
\* paper_info is a local of the iteration that generate_poster never reads.
ExtractInfo(summary_ok) ==
    /\ pc = "extract"
    /\ UNCHANGED <<args, env, dir, written, output_path, gen, calls, tmp_pdfs,
                   exit_code, runs>>
    /\ IF summary_ok
       THEN /\ pc' = "call_generate"
            /\ UNCHANGED <<idx, success_count, failed_ids, history, last>>
       ELSE RecordFailure("metadata extraction failed")
    /\ UNCHANGED paper

\* the call generate_poster(...) with its keyword arguments
CallGenerate ==
    /\ pc = "call_generate"
    /\ gen' = [NoCall EXCEPT
                 !.caller = "main",
                 !.orientation = args.orientation,
                 !.resolution = args.resolution,
                 !.model = args.model,
                 !.language = args.language,
                 !.side_panel = args.side_panel,
                 !.whatif_text = args.whatif,
                 !.existing_poster_path =
                     IF Truthy(args.whatif) THEN BaseFilename(arxiv_id, args)
                     ELSE PathNone,
                 !.api_key = args.api_key,
                 !.output_path = output_path]
    /\ pc' = "g_cred"
    /\ UNCHANGED <<args, env, dir, written, idx, success_count, failed_ids, output_path,
                   tmp_pdfs, calls, history, last, exit_code, runs>>
    /\ UNCHANGED paper

\* mutant: success_count += 1 is reached on the failure path too
AfterGenerateCountsAll ==
    /\ pc = "g_done"
    /\ gen.caller = "main"
    /\ gen' = NoCall
    /\ UNCHANGED <<args, env, dir, written, output_path, calls, exit_code, runs>>
    /\ success_count' = success_count + 1
    /\ IF gen.error = NoError
       THEN /\ history' = Append(history, "ok")
            /\ last' = [id |-> arxiv_id, result |-> "ok", reason |-> "saved"]
            /\ tmp_pdfs' = tmp_pdfs \ {idx}
            /\ UNCHANGED failed_ids
       ELSE /\ failed_ids' = Append(failed_ids, arxiv_id)
            /\ history' = Append(history, "failed")
            /\ last' = [id |-> arxiv_id, result |-> "failed", reason |-> gen.error.msg]
            /\ UNCHANGED tmp_pdfs
    /\ Advance
    /\ UNCHANGED paper

\* generate_poster returned or raised: the tally, and the temporary PDF
AfterGenerate ==
    /\ pc = "g_done"
    /\ gen.caller = "main"
    /\ gen' = NoCall
    /\ UNCHANGED <<args, env, dir, written, output_path, calls, exit_code, runs>>
    /\ IF gen.error = NoError
       THEN /\ success_count' = success_count + 1
            /\ history' = Append(history, "ok")
            /\ last' = [id |-> arxiv_id, result |-> "ok", reason |-> "saved"]
            /\ tmp_pdfs' = tmp_pdfs \ {idx}
            /\ UNCHANGED failed_ids
            /\ Advance
       ELSE /\ RecordFailure(gen.error.msg)
            /\ UNCHANGED tmp_pdfs
    /\ UNCHANGED paper

\* mutant: a batch returns 0 as soon as one identifier succeeded
SummaryAnySuccess ==
    /\ pc = "summary"
    /\ exit_code' = IF success_count > 0 THEN 0 ELSE 1
    /\ pc' = "exit"
    /\ UNCHANGED <<args, env, dir, written, idx, success_count, failed_ids, output_path,
                   tmp_pdfs, gen, calls, history, last, runs>>
    /\ UNCHANGED paper

\* the summary and the return value of main
Summary ==
    /\ pc = "summary"
    /\ exit_code' = IF Len(Ids) > 1
                    THEN (IF success_count = Len(Ids) THEN 0 ELSE 1)
                    ELSE (IF success_count > 0 THEN 0 ELSE 1)
    /\ pc' = "exit"
    /\ UNCHANGED <<args, env, dir, written, idx, success_count, failed_ids, output_path,
                   tmp_pdfs, gen, calls, history, last, runs>>
    /\ UNCHANGED paper

\* the program is started again over the same output directory
Restart ==
    /\ pc = "exit"
    /\ runs < MaxRuns
    /\ pc' = "idle"
    /\ args' = NoArgs
    /\ UNCHANGED <<env, dir, written, idx, success_count, failed_ids, output_path,
                   tmp_pdfs, gen, calls, history, last, exit_code, runs>>
    /\ UNCHANGED paper

\* ------------------------------------------ poster_generator.py generate_poster
Call(op, ok) == [svc |-> "gemini", op |-> op, ok |-> ok]

Raise(type, msg, detail) ==
    /\ gen' = [gen EXCEPT !.error = [type |-> type, msg |-> msg, detail |-> detail]]
    /\ pc' = "g_done"

\* mutant: the key is not checked before the upload
ResolveCredentialUnchecked ==
    /\ pc = "g_cred"
    /\ IF gen.model \notin DOMAIN ModelMap
       THEN /\ gen' = [gen EXCEPT
                        !.client_key = ResolveApiKey(gen.api_key, env),
                        !.error = [type |-> "ValueError", msg |-> "Invalid model",
                                   detail |-> <<>>]]
            /\ pc' = "g_done"
       ELSE /\ gen' = [gen EXCEPT !.client_key = ResolveApiKey(gen.api_key, env)]
            /\ pc' = "g_upload_pdf"
    /\ UNCHANGED <<args, env, dir, written, idx, success_count, failed_ids, output_path,
                   tmp_pdfs, calls, history, last, exit_code, runs>>
    /\ UNCHANGED paper

\* api key resolution, genai.Client(api_key=api_key), model_map lookup;
\* client_key is the key the client is built with
ResolveCredential ==
    /\ pc = "g_cred"
    /\ IF ~Truthy(ResolveApiKey(gen.api_key, env))
       THEN Raise("ValueError", "API key not provided", <<>>)
       ELSE IF gen.model \notin DOMAIN ModelMap
       THEN /\ gen' = [gen EXCEPT
                        !.client_key = ResolveApiKey(gen.api_key, env),
                        !.error = [type |-> "ValueError", msg |-> "Invalid model",
                                   detail |-> <<>>]]
            /\ pc' = "g_done"
       ELSE /\ gen' = [gen EXCEPT !.client_key = ResolveApiKey(gen.api_key, env)]
            /\ pc' = "g_upload_pdf"
    /\ UNCHANGED <<args, env, dir, written, idx, success_count, failed_ids, output_path,
                   tmp_pdfs, calls, history, last, exit_code, runs>>
    /\ UNCHANGED paper

\* mutant: a failed upload of the PDF is tried again
UploadPdfRetry(ok) ==
    /\ pc = "g_upload_pdf"
    /\ calls' = Append(calls, Call("upload_pdf", ok))
    /\ IF ok
       THEN /\ gen' = [gen EXCEPT !.uploaded_pdf = TRUE]
            /\ pc' = IF PathTruthy(gen.existing_poster_path) THEN "g_upload_poster"
                     ELSE "g_generate"
       ELSE UNCHANGED <<gen, pc>>
    /\ UNCHANGED <<args, env, dir, written, idx, success_count, failed_ids, output_path,
                   tmp_pdfs, history, last, exit_code, runs>>
    /\ UNCHANGED paper

\* client.files.upload of the PDF
UploadPdf(ok) ==
    /\ pc = "g_upload_pdf"
    /\ calls' = Append(calls, Call("upload_pdf", ok))
    /\ IF ok
       THEN /\ gen' = [gen EXCEPT !.uploaded_pdf = TRUE]
            /\ pc' = IF PathTruthy(gen.existing_poster_path) THEN "g_upload_poster"
                     ELSE "g_generate"
       ELSE Raise("RuntimeError", "Failed to upload PDF file", <<>>)
    /\ UNCHANGED <<args, env, dir, written, idx, success_count, failed_ids, output_path,
                   tmp_pdfs, history, last, exit_code, runs>>
    /\ UNCHANGED paper

\* mutant: a failed upload of the existing poster is not fatal
UploadPosterFailureIgnored(ok) ==
    /\ pc = "g_upload_poster"
    /\ ok => Exists(gen.existing_poster_path)
    /\ calls' = Append(calls, Call("upload_poster", ok))
    /\ gen' = IF ok THEN [gen EXCEPT !.uploaded_poster = TRUE, !.poster_uri = "poster-uri"]
              ELSE gen
    /\ pc' = "g_generate"
    /\ UNCHANGED <<args, env, dir, written, idx, success_count, failed_ids, output_path,
                   tmp_pdfs, history, last, exit_code, runs>>
    /\ UNCHANGED paper

\* client.files.upload of the existing poster; a missing file cannot be uploaded
UploadPoster(ok) ==
    /\ pc = "g_upload_poster"
    /\ ok => Exists(gen.existing_poster_path)
    /\ calls' = Append(calls, Call("upload_poster", ok))
    /\ IF ok
       THEN /\ gen' = [gen EXCEPT !.uploaded_poster = TRUE, !.poster_uri = "poster-uri"]
            /\ pc' = "g_generate"
       ELSE Raise("RuntimeError", "Failed to upload existing poster image", <<>>)
    /\ UNCHANGED <<args, env, dir, written, idx, success_count, failed_ids, output_path,
                   tmp_pdfs, history, last, exit_code, runs>>
    /\ UNCHANGED paper

\* the request handed to client.models.generate_content
GenerationRequest(g) ==
    [model |-> ModelMap[g.model],
     contents |-> Contents(g, g.poster_uri),
     response_modalities |-> <<"TEXT", "IMAGE">>,
     image_config |-> ImageConfigParams(g)]

\* the except clause of the generation call
ClassifyError(error_msg) ==
    IF IsApiKeyError(error_msg)
    THEN [type |-> "ValueError", msg |-> "API key error", detail |-> error_msg]
    ELSE [type |-> "APIError", msg |-> "generation call failed", detail |-> error_msg]

\* prompt, contents and config are built and generate_content is called;
\* outcome is "ok" with the response's parts, or "error" with the message
Generate(outcome, parts, error_msg) ==
    /\ pc = "g_generate"
    /\ calls' = Append(calls, Call("generate", outcome = "ok"))
    /\ gen' = [gen EXCEPT
                 !.request = <<GenerationRequest(gen)>>,
                 !.response = IF outcome = "ok" THEN parts ELSE <<>>,
                 !.error = IF outcome = "ok" THEN NoError ELSE ClassifyError(error_msg)]
    /\ pc' = "g_delete_pdf"
    /\ UNCHANGED <<args, env, dir, written, idx, success_count, failed_ids, output_path,
                   tmp_pdfs, history, last, exit_code, runs>>
    /\ UNCHANGED paper

\* where control goes when the finally block is left
AfterFinally == IF gen.error # NoError THEN "g_done" ELSE "g_extract"

\* mutant: an error of the PDF's deletion leaves the finally block
DeletePdfRaises(ok) ==
    /\ pc = "g_delete_pdf"
    /\ calls' = Append(calls, Call("delete_pdf", ok))
    /\ IF ok
       THEN /\ pc' = IF gen.uploaded_poster THEN "g_delete_poster" ELSE AfterFinally
            /\ UNCHANGED gen
       ELSE Raise("APIError", "delete failed", <<>>)
    /\ UNCHANGED <<args, env, dir, written, idx, success_count, failed_ids, output_path,
                   tmp_pdfs, history, last, exit_code, runs>>
    /\ UNCHANGED paper

\* finally: client.files.delete of the PDF, errors ignored
DeletePdf(ok) ==
    /\ pc = "g_delete_pdf"
    /\ calls' = Append(calls, Call("delete_pdf", ok))
    /\ pc' = IF gen.uploaded_poster THEN "g_delete_poster" ELSE AfterFinally
    /\ UNCHANGED <<args, env, dir, written, idx, success_count, failed_ids, output_path,
                   tmp_pdfs, gen, history, last, exit_code, runs>>
    /\ UNCHANGED paper

\* finally: client.files.delete of the poster, errors ignored
DeletePoster(ok) ==
    /\ pc = "g_delete_poster"
    /\ calls' = Append(calls, Call("delete_poster", ok))
    /\ pc' = AfterFinally
    /\ UNCHANGED <<args, env, dir, written, idx, success_count, failed_ids, output_path,
                   tmp_pdfs, gen, history, last, exit_code, runs>>
    /\ UNCHANGED paper

\* mutant: the file is opened for writing before the parts are looked at
ExtractImageAlwaysWrites ==
    /\ pc = "g_extract"
    /\ written' = (gen.output_path :> [run |-> runs, idx |-> idx]) @@ written
    /\ IF FirstImage(gen.response) > 0
       THEN /\ gen' = [gen EXCEPT !.saved_part = FirstImage(gen.response)]
            /\ pc' = "g_done"
       ELSE Raise("RuntimeError", "No image was generated in the API response", <<>>)
    /\ UNCHANGED <<args, env, dir, idx, success_count, failed_ids, output_path,
                   tmp_pdfs, calls, history, last, exit_code, runs>>
    /\ UNCHANGED paper

\* the loop over response.parts: the first image is saved to output_path
ExtractImage ==
    /\ pc = "g_extract"
    /\ IF FirstImage(gen.response) > 0
       THEN /\ written' = (gen.output_path :> [run |-> runs, idx |-> idx]) @@ written
            /\ gen' = [gen EXCEPT !.saved_part = FirstImage(gen.response)]
            /\ pc' = "g_done"
       ELSE /\ Raise("RuntimeError", "No image was generated in the API response", <<>>)
            /\ UNCHANGED written
    /\ UNCHANGED <<args, env, dir, idx, success_count, failed_ids, output_path,
                   tmp_pdfs, calls, history, last, exit_code, runs>>
    /\ UNCHANGED paper

\* generate_poster called as a library function
DirectCall(g, e) ==
    /\ pc = "idle"
    /\ gen' = g
    /\ env' = e
    /\ pc' = "g_cred"
    /\ UNCHANGED <<args, dir, written, idx, success_count, failed_ids, output_path,
                   tmp_pdfs, calls, history, last, exit_code, runs>>
    /\ UNCHANGED paper

\* ------------------------------------------------------------ specifications
Dirs == [base : BOOLEAN, variants : VariantSets]

Init ==
    /\ args = NoArgs
    /\ env = Unset
    /\ dir \in Dirs
    /\ written = <<>>
    /\ pc = "idle"
    /\ idx = 0
    /\ success_count = 0
    /\ failed_ids = <<>>
    /\ output_path = PathNone
    /\ tmp_pdfs = {}
    /\ gen = NoCall
    /\ calls = <<>>
    /\ history = <<>>
    /\ last = NoLast
    /\ exit_code = -1
    /\ runs = 0
    /\ paper = NoPaper

\* command lines with their environment: the pipeline cases without environment
\* keys, and every credential combination for one identifier
CliRuns ==
    {<<a, Unset>> : a \in CliArgs}
    \cup {<<WithOptions(DefaultOptions, <<AllIds[1]>>, PathNone, None, k), e>> :
            k \in {None, "", "key"}, e \in Envs}

GenSteps ==
    \/ ResolveCredential
    \/ \E ok \in BOOLEAN : UploadPdf(ok)
    \/ \E ok \in BOOLEAN : UploadPoster(ok)
    \/ \E parts \in PartLists : Generate("ok", parts, <<>>)
    \/ \E m \in ErrorMessages : Generate("error", <<>>, m)
    \/ \E ok \in BOOLEAN : DeletePdf(ok)
    \/ \E ok \in BOOLEAN : DeletePoster(ok)
    \/ ExtractImage

MainSteps ==
    \/ \E mkdir_ok \in BOOLEAN : DerivePath(mkdir_ok)
    \/ \E outcome \in {"ok", "not_found", "error"} : Download(outcome)
    \/ \E summary_ok \in BOOLEAN : ExtractInfo(summary_ok)
    \/ CallGenerate
    \/ AfterGenerate
    \/ Summary

\* one run of the command line program
Next ==
    \/ \E r \in CliRuns : StartRun(r[1], r[2])
    \/ MainSteps
    \/ GenSteps

Spec == Init /\ [][Next]_vars

\* arguments of direct calls: every option combination with a key given, and
\* every credential combination with the default options
GenOptions ==
    [orientation : {"landscape", "portrait"}, resolution : {"1K", "2K", "4K"},
     model : {"pro", "flash", "ultra"}, side_panel : {None, "", "qa", "timeline"},
     whatif_text : {None, "idea"}]

PosterPaths == {PathNone, PathEmpty, BaseFilename(AllIds[1], DefaultOptions)}

GenCall(o, poster, k) ==
    [NoCall EXCEPT
       !.caller = "direct",
       !.orientation = o.orientation,
       !.resolution = o.resolution,
       !.model = o.model,
       !.language = English,
       !.side_panel = o.side_panel,
       !.whatif_text = o.whatif_text,
       !.existing_poster_path = poster,
       !.api_key = k,
       !.output_path = <<"poster.png">>]

DefaultGenOptions ==
    [orientation |-> "landscape", resolution |-> "2K", model |-> "pro",
     side_panel |-> None, whatif_text |-> None]

GenCalls ==
    {<<GenCall(o, p, "key"), Unset>> : o \in GenOptions, p \in PosterPaths}
    \cup {<<GenCall(DefaultGenOptions, PathNone, k), e>> :
            k \in {None, "", "key"}, e \in Envs}

InitGen == Init /\ dir.variants = {}

NextGen ==
    \/ \E c \in GenCalls : DirectCall(c[1], c[2])
    \/ GenSteps

SpecGen == InitGen /\ [][NextGen]_vars

\* key_concepts = extract_key_concepts(abstract)
CallExtractKeyConcepts ==
    /\ pc = "idle"
    /\ ~paper.extracted
    /\ paper' = [paper EXCEPT !.key_concepts = extract_key_concepts(paper.abstract),
                              !.extracted = TRUE]
    /\ UNCHANGED <<args, env, dir, written, pc, idx, success_count, failed_ids,
                   output_path, tmp_pdfs, gen, calls, history, last, exit_code, runs>>

\* extract_key_concepts applied to every abstract
InitExtract ==
    /\ args = NoArgs
    /\ env = Unset
    /\ dir = [base |-> FALSE, variants |-> {}]
    /\ written = <<>>
    /\ pc = "idle"
    /\ idx = 0
    /\ success_count = 0
    /\ failed_ids = <<>>
    /\ output_path = PathNone
    /\ tmp_pdfs = {}
    /\ gen = NoCall
    /\ calls = <<>>
    /\ history = <<>>
    /\ last = NoLast
    /\ exit_code = -1
    /\ runs = 0
    /\ paper \in {[NoPaper EXCEPT !.abstract = t] : t \in Abstracts}

NextExtract == CallExtractKeyConcepts

SpecExtract == InitExtract /\ [][NextExtract]_vars

\* repeated what-if runs over one output directory
NextRuns ==
    \/ \E a \in WhatifArgs : StartRun(a, Unset)
    \/ MainSteps
    \/ GenSteps
    \/ Restart

SpecRuns == Init /\ [][NextRuns]_vars

\* ------------------------------------------------------------------ claims
Attempted(op) == \E i \in 1..Len(calls) : calls[i].op = op

InCall == gen.caller # None

Sent == gen.request # <<>>

\* main refused the command line before the loop
Rejected ==
    Len(Ids) > 1 /\ (args.output # PathNone \/ Truthy(args.whatif))

\* C1: when generate_poster has returned or raised, a deletion has been
\* attempted for every asset that was uploaded (the PDF, the reference image).
C1_UploadedAssetsReleased ==
    (InCall /\ pc = "g_done") =>
        /\ gen.uploaded_pdf => Attempted("delete_pdf")
        /\ gen.uploaded_poster => Attempted("delete_poster")

RECURSIVE FailedOf(_, _)
\* the identifiers whose outcome is "failed", in input order
FailedOf(ids, h) ==
    IF h = <<>> THEN <<>>
    ELSE (IF Head(h) = "failed" THEN <<Head(ids)>> ELSE <<>>)
         \o FailedOf(Tail(ids), Tail(h))

Count(h, x) == Cardinality({i \in 1..Len(h) : h[i] = x})

LoopOver == pc \in {"summary", "exit"}

\* C2: in a run that enters the loop, every identifier before the current one
\* has one recorded outcome, the failed ones are in failed_ids in input order
\* against their own identifier, and the loop ends only after the last
\* identifier, whatever failed on the way.
C2_FailureIsolation ==
    (pc # "idle" /\ ~InCall /\ ~Rejected) =>
        /\ (~LoopOver => idx \in 1..Len(Ids) /\ Len(history) = idx - 1)
        /\ (LoopOver => Len(history) = Len(Ids))
        /\ failed_ids = FailedOf(Ids, history)
        /\ success_count = Count(history, "ok")

\* C2 witness: a batch of three whose second identifier failed
C2_SecondOfThreeFailed ==
    /\ pc = "exit"
    /\ Len(Ids) = 3
    /\ history = <<"ok", "failed", "ok">>
    /\ failed_ids = <<Ids[2]>>
    /\ success_count = 2

\* C3: a what-if request whose base poster does not exist performs no remote
\* call and ends with the identifier recorded as failed, whatever the other
\* options are.
C3_WhatifWithoutBaseNoCalls ==
    (pc # "idle" /\ Len(Ids) = 1 /\ Truthy(args.whatif)
        /\ ~Exists(BaseFilename(Ids[1], args))) =>
        /\ calls = <<>>
        /\ ~InCall
        /\ (LoopOver => failed_ids = Ids)

NoCredential ==
    /\ gen.api_key = None
    /\ ~Truthy(env.GEMINI_API_KEY)
    /\ ~Truthy(env.GOOGLE_API_KEY)

\* C4: a call of generate_poster without api_key argument and without either
\* environment key issues no upload, no generation call and no delete, and
\* ends with the "API key not provided" ValueError.
C4_NoCredentialNoServiceCall ==
    (InCall /\ NoCredential) =>
        /\ calls = <<>>
        /\ pc \in {"g_cred", "g_done"}
        /\ (pc = "g_done" =>
               /\ gen.error.type = "ValueError"
               /\ gen.error.msg = "API key not provided")

\* C4 witness: such a call has failed
C4_FailedWithoutCredential ==
    /\ InCall
    /\ NoCredential
    /\ pc = "g_done"
    /\ gen.error.msg = "API key not provided"

\* C5: a run of main without any credential makes no remote call at all,
\* neither to the paper repository nor to the image service, and every
\* identifier ends recorded as failed.
C5_NoCredentialNoRemoteCall ==
    (pc # "idle" /\ ~Rejected /\ args.api_key = None
        /\ ~Truthy(env.GEMINI_API_KEY) /\ ~Truthy(env.GOOGLE_API_KEY)) =>
        /\ calls = <<>>
        /\ (LoopOver => failed_ids = Ids)

\* the table of the specification
RatioTable(present, orientation) ==
    IF present /\ orientation = "landscape" THEN "21:9"
    ELSE IF present /\ orientation = "portrait" THEN "4:3"
    ELSE IF ~present /\ orientation = "landscape" THEN "3:2"
    ELSE "3:4"

\* C6: the aspect ratio derived for a call, and the one in the configuration of
\* the generation call, is the table's: 21:9 and 4:3 with a side panel, 3:2 and
\* 3:4 without, for landscape and portrait.
C6_AspectRatioTable ==
    InCall =>
        LET ratio == RatioTable(gen.side_panel \notin {None, ""}, gen.orientation)
        IN /\ AspectRatio(gen.side_panel, gen.orientation) = ratio
           /\ (Sent => gen.request[1].image_config.aspectRatio = ratio)

\* C6 witness: a portrait request with the Q&A panel was sent with 4:3
C6_PortraitQaSent ==
    /\ Sent
    /\ gen.side_panel = "qa"
    /\ gen.orientation = "portrait"
    /\ gen.request[1].image_config.aspectRatio = "4:3"

\* C7: the configuration of a generation call has an imageSize exactly when
\* the model is pro, and then it is the requested resolution.
C7_ImageSizeOnlyForPro ==
    Sent =>
        LET cfg == gen.request[1].image_config
        IN /\ ("imageSize" \in DOMAIN cfg) <=> (gen.model = "pro")
           /\ (gen.model = "pro" => cfg.imageSize = gen.resolution)

\* C7 witness: a flash request with resolution 4K was sent without imageSize
C7_FlashSentWithoutSize ==
    /\ Sent
    /\ gen.model = "flash"
    /\ gen.resolution = "4K"
    /\ "imageSize" \notin DOMAIN gen.request[1].image_config

\* C8: with any side_panel other than qa the request is the one derived with
\* side_panel absent: same aspect ratio, same prompt, no error for the panel.
C8_UnknownPanelIsNoPanel ==
    (Sent /\ gen.side_panel # "qa") =>
        LET absent == [gen EXCEPT !.side_panel = None]
            sent == gen.request[1]
        IN /\ sent.image_config.aspectRatio = AspectRatio(None, gen.orientation)
           /\ sent.contents[Len(sent.contents)].text = PosterPrompt(absent)

\* the least N >= 1 whose variant file does not exist
LeastFree(id, a, n) ==
    /\ n >= 1
    /\ ~Exists(VariantFilename(id, a, n))
    /\ \A m \in 1..(n - 1) : Exists(VariantFilename(id, a, m))

\* the what-if path of the current identifier has been derived
WhatifDerived ==
    /\ pc = "download"
    /\ Truthy(args.whatif)
    /\ Exists(BaseFilename(arxiv_id, args))

\* C9 as stated: for a what-if request whose base poster exists the target is
\* the base name with _var_N, N the least free number.
C9_TargetIsLeastFreeVariant ==
    WhatifDerived =>
        /\ Len(output_path) = 7
        /\ output_path = VariantFilename(arxiv_id, args, output_path[7])
        /\ LeastFree(arxiv_id, args, output_path[7])

\* C9 amended: the same, when no custom --output is given.
C9_DerivedTargetIsLeastFreeVariant ==
    (WhatifDerived /\ args.output = PathNone) => 
        /\ Len(output_path) = 7
        /\ output_path = VariantFilename(arxiv_id, args, output_path[7])
        /\ LeastFree(arxiv_id, args, output_path[7])

\* C9 witness: only _var_2 exists and the target is _var_1
C9_GapTargetsFirst ==
    /\ WhatifDerived
    /\ args.output = PathNone
    /\ dir.variants = {2}
    /\ output_path = VariantFilename(arxiv_id, args, 1)

WhatifVariant(n) == VariantFilename(AllIds[1], DefaultOptions, n)

\* runs of main that saved a poster
SavingRuns == {written[f].run : f \in DOMAIN written}

\* C10: a what-if run with the derived path saves only to a name that did not
\* exist, leaving every existing file as it was; starting from a directory
\* that holds only the base poster, k saving runs leave _var_1 .. _var_k.
C10_NoOverwrite ==
    /\ [][(\A f \in DOMAIN written : f \in DOMAIN written' /\ written'[f] = written[f])
          /\ (\A f \in DOMAIN written' \ DOMAIN written : ~InitiallyExists(f))]_vars
    /\ []((dir.base /\ dir.variants = {}) =>
            DOMAIN written = {WhatifVariant(n) : n \in 1..Cardinality(SavingRuns)})

\* C10 witness: three what-if runs have saved _var_1, _var_2 and _var_3
C10_ThreeVariantsSaved ==
    /\ dir.base
    /\ dir.variants = {}
    /\ Cardinality(SavingRuns) = 3
    /\ DOMAIN written = {WhatifVariant(1), WhatifVariant(2), WhatifVariant(3)}


\* every identifier of the run has the outcome "ok"
AllSucceeded == \A i \in 1..Len(history) : history[i] = "ok"

\* C11: when main returns after the loop, a run over one identifier returns 0
\* if that identifier succeeded and 1 otherwise, and a run over several
\* identifiers returns 0 if all of them succeeded and 1 if one failed.
C11_ExitCode ==
    (pc = "exit" /\ ~Rejected) =>
        /\ Len(history) = Len(Ids)
        /\ exit_code \in {0, 1}
        /\ Len(Ids) = 1 => (exit_code = 0 <=> history = <<"ok">>)
        /\ Len(Ids) > 1 => (exit_code = 0 <=> AllSucceeded)
        /\ Len(Ids) > 1 => (exit_code = 1 <=> Count(history, "failed") >= 1)

\* C11 witness: a batch of two with one success and one failure returns 1
C11_BatchWithOneFailureReturnsOne ==
    /\ pc = "exit"
    /\ Len(Ids) = 2
    /\ history = <<"ok", "failed">>
    /\ exit_code = 1

\* C12: a command line with more than one identifier and a custom --output
\* or a what-if text (args.whatif is truthy, the test of the code) ends with exit code 1 before the loop: nothing is
\* downloaded, no remote call is made, no identifier gets an outcome and no
\* poster is written.
C12_RejectedBeforeProcessing ==
    (pc # "idle" /\ Rejected) =>
        /\ pc = "exit"
        /\ exit_code = 1
        /\ calls = <<>>
        /\ history = <<>>
        /\ failed_ids = <<>>
        /\ tmp_pdfs = {}
        /\ gen = NoCall
        /\ DOMAIN written = {}

\* C12 witness: two identifiers with a what-if text, rejected
C12_BatchWhatifRejected ==
    /\ pc = "exit"
    /\ Len(Ids) = 2
    /\ Truthy(args.whatif)
    /\ args.output = PathNone
    /\ exit_code = 1
    /\ calls = <<>>

\* the position of an external call in the pipeline of one identifier
OpRank(op) ==
    CASE op = "download" -> 1
      [] op = "upload_pdf" -> 2
      [] op = "upload_poster" -> 3
      [] op = "generate" -> 4
      [] op = "delete_pdf" -> 5
      [] op = "delete_poster" -> 6

\* the steps of generate_poster after the given external call
AfterUploadPdf ==
    {"g_upload_poster", "g_generate", "g_delete_pdf", "g_delete_poster", "g_extract"}

AfterGenerateCall == {"g_delete_pdf", "g_delete_poster", "g_extract"}

\* C13: the external calls made for one identifier follow the pipeline order
\* and none is made twice, whether it failed or succeeded; a step the
\* pipeline has passed has made its call.
C13_NoRetries ==
    /\ \A i, j \in 1..Len(calls) :
          i < j => OpRank(calls[i].op) < OpRank(calls[j].op)
    /\ (pc \in {"extract", "call_generate"} \/ (InCall /\ gen.caller = "main"))
          => Attempted("download")
    /\ pc \in AfterUploadPdf => Attempted("upload_pdf")
    /\ pc \in AfterGenerateCall => Attempted("generate")
    /\ pc \in {"g_delete_poster", "g_extract"} => Attempted("delete_pdf")
    /\ (pc = "g_extract" /\ gen.uploaded_poster) => Attempted("delete_poster")

\* C13 witness: generate_poster ended after the upload of the PDF failed, with
\* the download and the one upload as the only calls
C13_FailedUploadNotRepeated ==
    /\ pc = "g_done"
    /\ gen.caller = "main"
    /\ Len(calls) = 2
    /\ calls[1].op = "download"
    /\ calls[2] = Call("upload_pdf", FALSE)


\* main is between the derivation of the output path and the end of the
\* iteration of the current identifier
Processing ==
    \/ pc \in {"download", "extract", "call_generate"}
    \/ InCall /\ gen.caller = "main"

\* the default name is asked for: no custom output, no what-if text
DefaultNaming == args.output = PathNone /\ ~Truthy(args.whatif)

\* the language token of the file name, written out
ExpectedLang(language) ==
    CASE language = English -> <<"e","n","g","l","i","s","h">>
      [] language = OldEnglish -> <<"o","l","d","_","e","n","g","l","i","s","h">>

ExpectedPanel(side_panel) ==
    CASE side_panel = None -> "nopanel"
      [] side_panel = "" -> "nopanel"
      [] OTHER -> side_panel

\* poster_1706.03762_landscape_english_nopanel.png
ExamplePoster ==
    <<"poster", "1706.03762", "landscape", <<"e","n","g","l","i","s","h">>, "nopanel">>

HasWord(s, w) ==
    \E i \in 1..Len(s) :
        IsPrefixAt(w, s, i) /\ Boundary(s, i) /\ Boundary(s, i + Len(w))

\* C15: the string extract_key_concepts returns contains no word of the
\* stoplist, whatever the abstract is.
C15_NoStoplistWordInConcepts ==
    paper.extracted => \A w \in common_words : ~HasWord(paper.key_concepts, w)


\* the call of the given kind was made and failed
Failed(op) == \E i \in 1..Len(calls) : calls[i] = Call(op, FALSE)

PdfUploadError == [type |-> "RuntimeError", msg |-> "Failed to upload PDF file", detail |-> <<>>]

PosterUploadError ==
    [type |-> "RuntimeError", msg |-> "Failed to upload existing poster image",
     detail |-> <<>>]

\* C16: a failed upload of the PDF ends generate_poster with the error that
\* names the PDF upload, and neither the reference image is uploaded nor the
\* generation call made; a failed upload of the reference image ends it with
\* a different error that names the reference image, and the generation call
\* is not made.
C16_UploadFailureIsFatal ==
    /\ (InCall /\ Failed("upload_pdf")) =>
          /\ pc = "g_done"
          /\ gen.error = PdfUploadError
          /\ ~Attempted("upload_poster")
          /\ ~Attempted("generate")
          /\ ~Sent
    /\ (InCall /\ Failed("upload_poster")) =>
          /\ pc = "g_done"
          /\ gen.error = PosterUploadError
          /\ gen.error # PdfUploadError
          /\ ~Attempted("generate")
          /\ ~Sent

\* C16 witness: the PDF was uploaded, the upload of the reference image failed
C16_PosterUploadFailed ==
    /\ pc = "g_done"
    /\ calls = <<Call("upload_pdf", TRUE), Call("upload_poster", FALSE)>>
    /\ gen.error = PosterUploadError

GenerateOk == \E i \in 1..Len(calls) : calls[i] = Call("generate", TRUE)

NoImageError ==
    [type |-> "RuntimeError", msg |-> "No image was generated in the API response",
     detail |-> <<>>]

HasImage(parts) == \E i \in 1..Len(parts) : parts[i] = "image"

\* C17: when generate_poster ends after the generation call, its result or
\* error is the one the generation call and the response determine, whatever
\* the deletions returned, and the deletion of the reference image has been
\* attempted whenever it was uploaded, also after a failed deletion of the PDF.
C17_CleanupFailuresSwallowed ==
    /\ (InCall /\ Failed("delete_pdf") /\ gen.uploaded_poster
            /\ pc # "g_delete_poster") => Attempted("delete_poster")
    /\ (InCall /\ pc = "g_done" /\ Attempted("generate")) =>
          /\ Attempted("delete_pdf")
          /\ Failed("generate") =>
                gen.error.msg \in {"API key error", "generation call failed"}
          /\ (GenerateOk /\ HasImage(gen.response)) =>
                gen.error = NoError /\ gen.saved_part > 0
          /\ (GenerateOk /\ ~HasImage(gen.response)) => gen.error = NoImageError

\* C17 witness: both deletions failed and the poster was saved all the same
C17_BothDeletesFailedPosterSaved ==
    /\ pc = "g_done"
    /\ Failed("delete_pdf")
    /\ Failed("delete_poster")
    /\ gen.error = NoError
    /\ gen.saved_part > 0
    /\ gen.output_path \in DOMAIN written

\* the messages of ErrorMessages that carry "API key", "API_KEY" or, in any
\* letter case, "expired"
CredentialMessages ==
    { <<"A","P","I"," ","k","e","y"," ","b","a","d">>,
      <<"A","P","I","_","K","E","Y">>,
      <<"E","X","P","I","R","E","D">> }

\* C18: an error of the generation call whose message contains "API key",
\* "API_KEY" or "expired" (the last in any letter case) is raised again as the
\* API key error with the original message kept; any other error of the
\* generation call is propagated as it is.
C18_GenerationErrorClassified ==
    (InCall /\ Failed("generate")) =>
        /\ gen.error.detail \in ErrorMessages
        /\ gen.error.detail \in CredentialMessages =>
              gen.error.type = "ValueError" /\ gen.error.msg = "API key error"
        /\ gen.error.detail \notin CredentialMessages =>
              gen.error.type = "APIError" /\ gen.error.msg = "generation call failed"

\* C18 witness: the generation call failed with "EXPIRED" and generate_poster
\* ended with the API key error
C18_UpperCaseExpiredIsKeyError ==
    /\ pc = "g_done"
    /\ Failed("generate")
    /\ gen.error = [type |-> "ValueError", msg |-> "API key error",
                    detail |-> <<"E","X","P","I","R","E","D">>]

\* C19: after a successful generation call generate_poster ends either with
\* the first image part of the response, and no other, saved to output_path,
\* or, when no part is an image, with the no-image error and no file written;
\* nothing is written before that.
C19_FirstImageSaved ==
    /\ (InCall /\ gen.caller = "direct" /\ pc # "g_done") =>
          gen.output_path \notin DOMAIN written
    /\ (InCall /\ gen.caller = "direct" /\ pc = "g_done" /\ GenerateOk) =>
          IF HasImage(gen.response)
          THEN /\ gen.error = NoError
               /\ gen.saved_part \in 1..Len(gen.response)
               /\ gen.response[gen.saved_part] = "image"
               /\ \A j \in 1..(gen.saved_part - 1) : gen.response[j] # "image"
               /\ gen.output_path \in DOMAIN written
          ELSE /\ gen.error = NoImageError
               /\ gen.saved_part = 0
               /\ gen.output_path \notin DOMAIN written

\* C19 witness: a response of two image parts, the first one saved
C19_FirstOfTwoImagesSaved ==
    /\ pc = "g_done"
    /\ gen.response = <<"image", "image">>
    /\ gen.saved_part = 1
    /\ gen.output_path \in DOMAIN written

\* identifiers whose iteration is over
Processed == IF LoopOver THEN Len(Ids) ELSE idx - 1

\* s lists elements of ids at increasing positions p with h[p] = "failed"
InInputOrder(s, ids, h, n) ==
    \E f \in [1..Len(s) -> 1..n] :
        /\ \A k \in 1..Len(s) : s[k] = ids[f[k]] /\ h[f[k]] = "failed"
        /\ \A k \in 1..(Len(s) - 1) : f[k] < f[k + 1]

\* C20: in the loop and after it, success_count + len(failed_ids) is the
\* number of identifiers processed so far, each of them has exactly one
\* outcome, and failed_ids holds the failed ones in input order.
C20_TallyInvariant ==
    (pc # "idle" /\ ~Rejected) =>
        /\ success_count + Len(failed_ids) = Processed
        /\ Len(history) = Processed
        /\ Count(history, "ok") + Count(history, "failed") = Processed
        /\ Len(failed_ids) = Count(history, "failed")
        /\ InInputOrder(failed_ids, Ids, history, Processed)

\* C20 witness: before the third identifier of a batch, one success and one
\* failure are counted
C20_OneEachAfterTwoIterations ==
    /\ pc = "iter"
    /\ idx = 3
    /\ success_count = 1
    /\ failed_ids = <<Ids[1]>>


\* the first of the three sources that holds a token, None when none does
FirstToken(api_key, e) ==
    IF Truthy(api_key) THEN api_key
    ELSE IF Truthy(e.GEMINI_API_KEY) THEN e.GEMINI_API_KEY
    ELSE IF Truthy(e.GOOGLE_API_KEY) THEN e.GOOGLE_API_KEY
    ELSE None

MissingCredentialError ==
    [type |-> "ValueError", msg |-> "API key not provided", detail |-> <<>>]

\* C21: once generate_poster is past the credential check, the client holds
\* the first token among the api_key argument, GEMINI_API_KEY and
\* GOOGLE_API_KEY, and the call has failed with the missing-credential error
\* exactly when none of the three holds a token.
C21_FirstTokenUsed ==
    (InCall /\ pc # "g_cred") =>
        IF FirstToken(gen.api_key, env) = None
        THEN pc = "g_done" /\ gen.error = MissingCredentialError
        ELSE /\ gen.error # MissingCredentialError
             /\ gen.client_key = FirstToken(gen.api_key, env)


PdfPart == [kind |-> "file", mime |-> "application/pdf"]

PosterPart == [kind |-> "file", mime |-> "image/png"]

ReferenceText == [kind |-> "text", text |-> "REFERENCE"]

\* the call of the given kind succeeded at position i of the log
SucceededAt(op, i) == i \in 1..Len(calls) /\ calls[i] = Call(op, TRUE)

\* C22: in a generation call made for main, when a what-if text is given the
\* existing poster has been uploaded after the PDF and the contents are the
\* PDF, the poster, the REFERENCE text and the prompt, in this order; when no
\* what-if text is given no poster is uploaded and the contents are the PDF
\* and the prompt.
C22_ReferenceImageWiring ==
    (InCall /\ gen.caller = "main" /\ Sent) =>
        LET contents == gen.request[1].contents
        IN  IF Truthy(args.whatif)
            THEN /\ gen.uploaded_poster
                 /\ \E i \in 1..Len(calls) :
                       SucceededAt("upload_pdf", i) /\ SucceededAt("upload_poster", i + 1)
                 /\ Len(contents) = 4
                 /\ contents[1] = PdfPart
                 /\ contents[2] = PosterPart
                 /\ contents[3] = ReferenceText
                 /\ contents[4].kind = "prompt"
            ELSE /\ ~gen.uploaded_poster
                 /\ ~Attempted("upload_poster")
                 /\ Len(contents) = 2
                 /\ contents[1] = PdfPart
                 /\ contents[2].kind = "prompt"

\* C22 witness: a what-if run of main has sent the four-part request
C22_WhatifRequestSent ==
    /\ gen.caller = "main"
    /\ Truthy(args.whatif)
    /\ Sent
    /\ Len(gen.request[1].contents) = 4
    /\ gen.request[1].contents[2] = PosterPart


\* the files written for the identifier at position i of the current run
WrittenFor(i) ==
    {f \in DOMAIN written : written[f].run = runs /\ written[f].idx = i}

\* no file written for an identifier that is recorded as failed, and none
\* for the current identifier unless generate_poster has returned its path
FailedLeftUntouched ==
    (pc # "idle" /\ ~Rejected) =>
        /\ \A i \in 1..Len(history) : history[i] = "failed" => WrittenFor(i) = {}
        /\ (~LoopOver /\ WrittenFor(idx) # {}) =>
              /\ InCall
              /\ pc = "g_done"
              /\ gen.error = NoError
              /\ WrittenFor(idx) = {gen.output_path}

\* a step that changes the posters is the save after a successful generation
\* call, after the deletions, of an image part, to output_path only
WriteOnlyAfterSuccess ==
    written' # written =>
        /\ pc = "g_extract"
        /\ GenerateOk
        /\ Attempted("delete_pdf")
        /\ gen.uploaded_poster => Attempted("delete_poster")
        /\ HasImage(gen.response)
        /\ gen'.error = NoError
        /\ DOMAIN written' = DOMAIN written \cup {gen.output_path}
        /\ \A f \in DOMAIN written : f # gen.output_path => written'[f] = written[f]

\* C23: an identifier that failed at the download, the credential check, an
\* upload, the generation call or for want of an image has no poster created
\* or modified, and a poster is written only after the generation call
\* succeeded, the deletions of the uploaded assets were attempted and an
\* image part was found.
C23_FailureLeavesPostersUntouched ==
    []FailedLeftUntouched /\ [][WriteOnlyAfterSuccess]_vars

\* C23 witness: the generation call succeeded without an image part, the
\* identifier is recorded as failed and no file was written
C23_NoImageNothingWritten ==
    /\ pc = "exit"
    /\ history = <<"failed">>
    /\ last.reason = "No image was generated in the API response"
    /\ DOMAIN written = {}

====
